---- MODULE Spec2Model ----
(***************************************************************************)
(* A model of the EM API codec (emapi.c / emapi.h): the 12-byte header     *)
(* codec, the device-descriptor payload codec, the message builders, the   *)
(* request/response shape resolver and the name registries.                *)
(*                                                                         *)
(* Memory the caller hands to the library (header objects, descriptor      *)
(* arrays, byte buffers) is state.  Byte buffers and descriptor arrays are *)
(* flat byte sequences; C offset i is element i+1 of the sequence.         *)
(***************************************************************************)
EXTENDS Integers, Sequences, FiniteSets, TLC

VARIABLES
    hdr,        \* struct emapi_hdr of the message being built / sent (m->hdr)
    obj,        \* struct emapi_dev[] of the message being sent (m->obj.dev), flat bytes
    rx_hdr,     \* struct emapi_hdr that received bytes are deserialized into
    rx_obj,     \* struct emapi_dev[] that received bytes are deserialized into, flat bytes
    buf,        \* the wire buffer (__u8[]), as long as the caller allocated it
    call,       \* the last library call: function, arguments, return value, memory faults
    sent,       \* history: the object whose encoding the wire buffer currently holds
    STR_EMMT,   \* name table of message categories
    STR_EMOB,   \* name table of object kinds
    STR_EMOP,   \* name table of opcodes
    STR_EMRC,   \* name table of return codes
    prev        \* history: the library call before the last one

vars == <<hdr, obj, rx_hdr, rx_obj, buf, call, sent,
          STR_EMMT, STR_EMOB, STR_EMOP, STR_EMRC, prev>>

(***************************************************************************)
(* Program constants (emapi.h)                                             *)
(***************************************************************************)
EMLN_HDR == 12
EMLN_MSG == 8192
EMLN_PAYLOAD == EMLN_MSG - EMLN_HDR
EMLN_DEV_NAME == 125
EMLN_DEV_NUM == 64

EMOB_NULL == 0
EMOB_HDR == 1
EMOB_LIST_DEV == 2
EMOB_MAX == 3

EMMT_REQ == 0
EMMT_RSP == 1
EMMT_EVENT == 2
EMMT_MAX == 3

EMOP_EVENT == 0
EMOP_LIST_DEV == 1
EMOP_CONN_DEV == 2
EMOP_DISCON_DEV == 3
EMOP_MAX == 4

EMRC_MAX == 6

\* sizeof(struct emapi_dev): id, len and name[EMLN_DEV_NAME], all of char alignment
SIZEOF_DEV == 2 + EMLN_DEV_NAME

\* Pointers: NULL, or a pointer to the object x; the object p points to
NULL == <<>>
Ptr(x) == <<x>>
Deref(p) == p[1]

(***************************************************************************)
(* Integer conversions of C                                                *)
(***************************************************************************)
\* conversion to a 4-bit bit-field, to __u8 and to __u16: reduction modulo 2^w
U4(x) == x % 16
U8(x) == x % 256
U16(x) == x % 65536

\* A __u32 is kept as its two 16-bit halves, so that no value leaves the range
\* of the checker's integers.  W32(hi, lo) is the value hi * 2^16 + lo
W32(hi, lo) == [hi |-> hi, lo |-> lo]

\* conversion of an int x (-2^31 .. 2^31-1) to __u32: reduction modulo 2^32
U32(x) == W32((x \div 65536) % 65536, x % 65536)

\* (u >> (8 * n)) & 0xFF of a __u32 u, n in 0..3
ByteOf(u, n) ==
    CASE n = 0 -> u.lo % 256
      [] n = 1 -> (u.lo \div 256) % 256
      [] n = 2 -> u.hi % 256
      [] n = 3 -> (u.hi \div 256) % 256

(***************************************************************************)
(* Flat memory                                                             *)
(***************************************************************************)
\* mem[i] of an array of Len(mem) bytes; a read past the end yields the byte g
\* that happens to lie there
Peek(mem, i, g) == IF i < Len(mem) THEN mem[i + 1] ELSE g

\* mem[i] = v; a store past the end of the array does not land in the array
Poke(mem, i, v) == IF i < Len(mem) THEN [mem EXCEPT ![i + 1] = v] ELSE mem

\* memcpy(&mem[off], bytes, Len(bytes)), as far as it lands in the array
MemCpy(mem, off, bytes) ==
    IF off >= Len(mem) \/ Len(bytes) = 0 THEN mem
    ELSE LET n == IF off + Len(bytes) > Len(mem) THEN Len(mem) - off ELSE Len(bytes)
         IN  SubSeq(mem, 1, off) \o SubSeq(bytes, 1, n)
                 \o SubSeq(mem, off + n + 1, Len(mem))

\* n bytes, all equal to v
Fill(n, v) == [j \in 1..n |-> v]

(***************************************************************************)
(* struct emapi_hdr                                                        *)
(***************************************************************************)
\* memset(&hdr, 0, sizeof(struct emapi_hdr))
ZeroHdr == [ver |-> 0, type |-> 0, tag |-> 0, rc |-> 0, opcode |-> 0,
            a |-> 0, rsvd |-> 0, len |-> 0, b |-> W32(0, 0)]

\* The result of a codec call: the return value, the destination after the call,
\* and whether the call read or wrote outside the memory it was given
Result(rv, dst, oobr, oobw) ==
    [rv |-> rv, dst |-> dst, oobr |-> oobr, oobw |-> oobw]

\* emapi_serialize, case EMOB_HDR: eleven stores; dst[5] is not stored to
serialize_hdr(dst, o) ==
    LET d0  == Poke(dst, 0, ((o.ver * 16) % 256) + (o.type % 16))
        d1  == Poke(d0, 1, o.tag)
        d2  == Poke(d1, 2, o.rc)
        d3  == Poke(d2, 3, o.opcode)
        d4  == Poke(d3, 4, o.a)
        d6  == Poke(d4, 6, o.len % 256)
        d7  == Poke(d6, 7, (o.len \div 256) % 256)
        d8  == Poke(d7, 8, ByteOf(o.b, 0))
        d9  == Poke(d8, 9, ByteOf(o.b, 1))
        d10 == Poke(d9, 10, ByteOf(o.b, 2))
        d11 == Poke(d10, 11, ByteOf(o.b, 3))
    IN  Result(EMLN_HDR, d11, FALSE, Len(dst) < EMLN_HDR)

\* emapi_deserialize, case EMOB_HDR: eight stores; o->rsvd is not stored to
deserialize_hdr(o, src, g) ==
    LET s(i) == Peek(src, i, g)
    IN  Result(EMLN_HDR,
               [o EXCEPT !.ver    = (s(0) \div 16) % 16,
                         !.type   = s(0) % 16,
                         !.tag    = s(1),
                         !.rc     = s(2),
                         !.opcode = s(3),
                         !.a      = s(4),
                         !.len    = U16(s(7) * 256 + s(6)),
                         !.b      = W32(U16(s(11) * 256 + s(10)),
                                        U16(s(9) * 256 + s(8)))],
               Len(src) < EMLN_HDR, FALSE)

(***************************************************************************)
(* struct emapi_dev and arrays of it                                       *)
(***************************************************************************)
\* emapi_serialize, case EMOB_LIST_DEV: the one descriptor src points to is
\* encoded; param is not read
serialize_dev(dst, src, g) ==
    LET id   == Peek(src, 0, g)
        len  == Peek(src, 1, g)
        name == [j \in 1..len |-> Peek(src, 2 + j - 1, g)]
        d0   == Poke(dst, 0, id)
        d1   == Poke(d0, 1, len)
        d2   == MemCpy(d1, 2, name)
    IN  Result(len + 2, d2,
               2 + len > Len(src) \/ len > EMLN_DEV_NAME,
               2 + len > Len(dst))

\* emapi_deserialize, case EMOB_LIST_DEV: the for loop, entered with the loop
\* variables st.i and st.k (k stays far below 2^32 for the buffers modelled, so
\* the unsigned k and the int returned are kept as plain integers).  st also
\* carries the destination array, whether a read left src or a store left the
\* destination array, and the largest number of name bytes stored into one
\* descriptor
RECURSIVE deserialize_dev_loop(_, _, _, _)
deserialize_dev_loop(st, src, num, g) ==
    IF st.i >= num THEN st
    ELSE
        LET o    == st.i * SIZEOF_DEV
            id   == Peek(src, st.k, g)
            len  == Peek(src, st.k + 1, g)
            k2   == st.k + 2
            d0   == Poke(st.dst, o, id)
            d1   == Poke(d0, o + 1, len)
            d2   == IF len = 0
                    THEN Poke(d1, o + 2, 0)
                    ELSE MemCpy(d1, o + 2, [j \in 1..len |-> Peek(src, k2 + j - 1, g)])
        IN  deserialize_dev_loop(
                [i     |-> st.i + 1,
                 k     |-> k2 + len,
                 dst   |-> d2,
                 oobr  |-> st.oobr \/ k2 + len > Len(src),
                 oobw  |-> st.oobw \/ o + 2 + (IF len = 0 THEN 1 ELSE len) > Len(st.dst),
                 nname |-> IF len > st.nname THEN len ELSE st.nname],
                src, num, g)

\* The case EMOB_LIST_DEV with the count taken as 1 whatever param points to
deserialize_dev_one(dst, src, param, g) ==
    LET fin == deserialize_dev_loop(
                   [i |-> 0, k |-> 0, dst |-> dst, oobr |-> FALSE, oobw |-> FALSE,
                    nname |-> 0],
                   src, 1, g)
    IN  [rv |-> fin.k, dst |-> fin.dst, oobr |-> fin.oobr, oobw |-> fin.oobw,
         ndev |-> 1, nname |-> fin.nname]

\* emapi_deserialize, case EMOB_LIST_DEV.  param is NULL or a pointer to the
\* unsigned count
deserialize_dev(dst, src, param, g) ==
    LET num == IF param = NULL THEN 1 ELSE Deref(param)
        fin == deserialize_dev_loop(
                   [i |-> 0, k |-> 0, dst |-> dst, oobr |-> FALSE, oobw |-> FALSE,
                    nname |-> 0],
                   src, num, g)
    IN  [rv |-> fin.k, dst |-> fin.dst, oobr |-> fin.oobr, oobw |-> fin.oobw,
         ndev |-> num, nname |-> fin.nname]

(***************************************************************************)
(* The codec entry points                                                  *)
(***************************************************************************)
\* emapi_serialize(dst, src, type, param): src is a header for EMOB_HDR and a
\* descriptor array for EMOB_LIST_DEV; g is the byte a read outside src yields
emapi_serialize(dst, src, type, param, g) ==
    IF type = EMOB_NULL \/ type >= EMOB_MAX THEN Result(0, dst, FALSE, FALSE)
    ELSE IF type = EMOB_HDR THEN serialize_hdr(dst, src)
    ELSE IF type = EMOB_LIST_DEV THEN serialize_dev(dst, src, g)
    ELSE Result(0, dst, FALSE, FALSE)

\* emapi_deserialize(dst, src, type, param): dst is NULL or points to a header
\* (EMOB_HDR) or a descriptor array (EMOB_LIST_DEV); g is the byte a read
\* outside src yields.  \* The result holds the object dst points to as the call leaves it
emapi_deserialize(dst, src, type, param, g) ==
    LET none(rv) == [rv |-> rv, dst |-> IF dst = NULL THEN NULL ELSE Deref(dst),
                     oobr |-> FALSE, oobw |-> FALSE, ndev |-> 0, nname |-> 0]
    IN  IF dst = NULL \/ type >= EMOB_MAX THEN none(-1)
        ELSE IF type = EMOB_NULL THEN none(0)
        ELSE IF type = EMOB_HDR
             THEN LET r == deserialize_hdr(Deref(dst), src, g)
                  IN  [rv |-> r.rv, dst |-> r.dst, oobr |-> r.oobr, oobw |-> r.oobw,
                       ndev |-> 0, nname |-> 0]
        ELSE IF type = EMOB_LIST_DEV THEN deserialize_dev(Deref(dst), src, param, g)
        ELSE none(-1)

(***************************************************************************)
(* Header and message builders                                             *)
(***************************************************************************)
\* emapi_fill_hdr(h, type, tag, rc, opcode, len, a, b): the arguments arrive as
\* __u8, __u16 and __u32 values; type is stored into a 4-bit bit-field
emapi_fill_hdr(h, type, tag, rc, opcode, len, a, b) ==
    IF h = NULL THEN [rv |-> 0, h |-> NULL]
    ELSE [rv |-> EMLN_HDR + len,
          h  |-> [Deref(h) EXCEPT !.ver = 0, !.type = U4(type), !.tag = tag,
                                  !.rc = rc, !.opcode = opcode, !.len = len,
                                  !.a = a, !.b = b]]

\* fill_msg without the memset of the header
fill_msg_no_memset(m, opcode, x, y) ==
    IF m = NULL THEN [rv |-> 1, m |-> NULL]
    ELSE [rv |-> 0,
          m  |-> [Deref(m) EXCEPT !.hdr.opcode = opcode, !.hdr.a = U8(x),
                                  !.hdr.b = U32(y)]]

\* The part the three message builders share: m is NULL or points to a message
\* [hdr, obj]; the header is cleared, then opcode, a and b are assigned (the int
\* arguments converted to __u8 and __u32); m->obj is not touched
fill_msg(m, opcode, x, y) ==
    IF m = NULL THEN [rv |-> 1, m |-> NULL]
    ELSE [rv |-> 0,
          m  |-> [Deref(m) EXCEPT !.hdr = [ZeroHdr EXCEPT !.opcode = opcode,
                                                          !.a = U8(x), !.b = U32(y)]]]

emapi_fill_conn(m, ppid, dev) == fill_msg(m, EMOP_CONN_DEV, ppid, dev)

emapi_fill_disconn(m, ppid, all) == fill_msg(m, EMOP_DISCON_DEV, ppid, all)

emapi_fill_listdev(m, num, start) == fill_msg(m, EMOP_LIST_DEV, num, start)

(***************************************************************************)
(* Shape resolver                                                          *)
(***************************************************************************)
emapi_emob_req(opcode) ==
    CASE opcode = EMOP_EVENT      -> EMOB_NULL
      [] opcode = EMOP_LIST_DEV   -> EMOB_LIST_DEV
      [] opcode = EMOP_CONN_DEV   -> EMOB_NULL
      [] opcode = EMOP_DISCON_DEV -> EMOB_NULL
      [] OTHER                    -> EMOB_NULL

emapi_emob_rsp(opcode) ==
    CASE opcode = EMOP_EVENT      -> EMOB_NULL
      [] opcode = EMOP_LIST_DEV   -> EMOB_LIST_DEV
      [] opcode = EMOP_CONN_DEV   -> EMOB_NULL
      [] opcode = EMOP_DISCON_DEV -> EMOB_NULL
      [] OTHER                    -> EMOB_NULL

(***************************************************************************)
(* Name registries                                                         *)
(***************************************************************************)
\* The initializers of the four tables
INIT_STR_EMMT == <<"Request", "Response", "Event">>

INIT_STR_EMOB == <<"Null", "emob_hdr", "emob_dev">>

INIT_STR_EMOP == <<"Event Notification", "List Devices", "Connect Device",
                   "Disconnect Device">>

INIT_STR_EMRC == <<"Success", "Background operation started", "Invalid input",
                   "Unsupported", "Internal error", "Busy">>

\* table[u] of a table of Len(table) pointers.  A pointer is <<>> (NULL) or
\* <<name>>; a read past the end of the table yields whatever pointer gp lies
\* behind it
TableAt(table, u, gp) == IF u < Len(table) THEN <<table[u + 1]>> ELSE gp

\* A lookup result: the pointer returned and whether the table was overrun
Lookup(str, oobr) == [str |-> str, oobr |-> oobr]

emmt(table, u, gp) ==
    IF u >= EMMT_MAX THEN Lookup(<<>>, FALSE)
    ELSE Lookup(TableAt(table, u, gp), u >= Len(table))

emob(table, u, gp) ==
    IF u >= EMOB_MAX THEN Lookup(<<>>, FALSE)
    ELSE Lookup(TableAt(table, u, gp), u >= Len(table))

emop(table, u, gp) ==
    IF u >= EMOP_MAX THEN Lookup(<<>>, FALSE)
    ELSE Lookup(TableAt(table, u, gp), u >= Len(table))

\* emrc with the bound checked by > in place of >=
emrc_off_by_one(table, u, gp) ==
    IF u > EMRC_MAX THEN Lookup(<<>>, FALSE)
    ELSE Lookup(TableAt(table, u, gp), u >= Len(table))

emrc(table, u, gp) ==
    IF u >= EMRC_MAX THEN Lookup(<<>>, FALSE)
    ELSE Lookup(TableAt(table, u, gp), u >= Len(table))

(***************************************************************************)
(* Calls                                                                   *)
(***************************************************************************)
\* The record of a call (a history variable, written by every action): the
\* function, whether its target pointer was NULL, the
\* object kind, param (NULL or a pointer to a count), the other arguments, the
\* int returned, the string pointer returned, whether a read or a store left
\* the memory handed in, the number of descriptors stored and the largest
\* number of name bytes stored into one of them
Call(fn, null, type, param, args, rv, str, oobr, oobw, ndev, nname) ==
    [fn |-> fn, null |-> null, type |-> type, param |-> param, args |-> args,
     rv |-> rv, str |-> str, oobr |-> oobr, oobw |-> oobw, ndev |-> ndev,
     nname |-> nname]

NoCall == Call("none", FALSE, 0, NULL, <<>>, 0, NULL, FALSE, FALSE, 0, 0)

\* Nothing the library wrote is in the wire buffer
NoSent == [type |-> EMOB_NULL, hdr |-> ZeroHdr, obj |-> <<>>, param |-> NULL, rv |-> 0,
           fit |-> FALSE]

\* Number of descriptors the array mem has room for
Cap(mem) == Len(mem) \div SIZEOF_DEV

\* emapi_serialize(buf, &hdr | obj, type, param)
Serialize(type, param, g) ==
    \E r \in {emapi_serialize(buf, IF type = EMOB_HDR THEN hdr ELSE obj, type, param, g)} :
        /\ buf' = r.dst
        /\ call' = Call("emapi_serialize", FALSE, type, param, <<>>, r.rv, NULL,
                        r.oobr, r.oobw, 0, 0)
        /\ sent' = IF type \in {EMOB_HDR, EMOB_LIST_DEV}
                   THEN [type |-> type, hdr |-> hdr, obj |-> obj, param |-> param,
                         rv |-> r.rv, fit |-> ~r.oobr /\ ~r.oobw]
                   ELSE sent
        /\ UNCHANGED <<hdr, obj, rx_hdr, rx_obj, STR_EMMT, STR_EMOB, STR_EMOP,
                       STR_EMRC, prev>>

\* emapi_deserialize(NULL | &rx_hdr | rx_obj, buf, type, param)
Deserialize(type, null, param, g) ==
    \E r \in {emapi_deserialize(IF null THEN NULL
                                 ELSE IF type = EMOB_LIST_DEV THEN Ptr(rx_obj)
                                 ELSE Ptr(rx_hdr),
                                 buf, type, param, g)} :
        /\ rx_hdr' = IF ~null /\ type # EMOB_LIST_DEV THEN r.dst ELSE rx_hdr
        /\ rx_obj' = IF ~null /\ type = EMOB_LIST_DEV THEN r.dst ELSE rx_obj
        /\ call' = Call("emapi_deserialize", null, type, param, <<>>, r.rv, NULL,
                        r.oobr, r.oobw, r.ndev, r.nname)
        /\ UNCHANGED <<hdr, obj, buf, sent, STR_EMMT, STR_EMOB, STR_EMOP,
                       STR_EMRC, prev>>

(***************************************************************************)
(* SpecHdr: the header codec over a grid of header values                  *)
(***************************************************************************)
\* Every field at its least, at its greatest and at the values of verify_hdr
HdrVals ==
    [ver : {0, 15}, type : {0, EMMT_RSP, 15}, tag : {66, 255}, rc : {0, 205},
     opcode : {EMOP_DISCON_DEV, 171}, a : {35, 255}, rsvd : {0, 255},
     len : {0, 8191, 65535}, b : {W32(0, 0), W32(4660, 22136), W32(65535, 65535)}]

\* the header verify_hdr fills in
TestHdr == [ver |-> 0, type |-> EMMT_RSP, tag |-> 66, rc |-> 205, opcode |-> 171,
            a |-> 35, rsvd |-> 0, len |-> 8191, b |-> W32(4660, 22136)]

\* a header object nobody cleared: every bit set
DirtyHdr == [ver |-> 15, type |-> 15, tag |-> 255, rc |-> 255, opcode |-> 255,
             a |-> 255, rsvd |-> 255, len |-> 65535, b |-> W32(65535, 65535)]

TablesInit ==
    /\ STR_EMMT = INIT_STR_EMMT
    /\ STR_EMOB = INIT_STR_EMOB
    /\ STR_EMOP = INIT_STR_EMOP
    /\ STR_EMRC = INIT_STR_EMRC

InitHdr ==
    /\ hdr \in HdrVals
    /\ rx_hdr \in {ZeroHdr, DirtyHdr}
    /\ buf \in {Fill(EMLN_HDR, 0), Fill(EMLN_HDR, 255)}
    /\ obj = <<>>
    /\ rx_obj = <<>>
    /\ call = NoCall
    /\ prev = NoCall
    /\ sent = NoSent
    /\ TablesInit

SerializeHdr == Serialize(EMOB_HDR, NULL, 0)

DeserializeHdr == Deserialize(EMOB_HDR, FALSE, NULL, 0)

NextHdr == SerializeHdr \/ DeserializeHdr

SpecHdr == InitHdr /\ [][NextHdr]_vars

(***************************************************************************)
(* SpecCodec: the codec entry points over every object kind, on descriptor *)
(* arrays and on wire buffers as a peer may send them                      *)
(***************************************************************************)
\* Longest descriptor array a message being sent holds, and the room (in
\* descriptors) of the array received bytes are decoded into
MaxDevs == 2

\* "Device name" and its terminator, the name verify_dev uses
DeviceName == <<68, 101, 118, 105, 99, 101, 32, 110, 97, 109, 101, 0>>

\* A name that fills name[EMLN_DEV_NAME], every byte different
FullName == [j \in 1..EMLN_DEV_NAME |-> j]

\* Descriptors: the one of verify_dev, one with an empty name, one with a name of
\* the greatest length
DevSamples ==
    { [id |-> 33, len |-> 12, name |-> DeviceName],
      [id |-> 0, len |-> 0, name |-> <<>>],
      [id |-> 255, len |-> EMLN_DEV_NAME, name |-> FullName] }

\* The SIZEOF_DEV bytes of a struct emapi_dev holding d, the rest of name zero
DevBytes(d) == <<d.id, d.len>> \o d.name \o Fill(EMLN_DEV_NAME - d.len, 0)

\* The bytes of an array holding the descriptors ds
DevArray(ds) ==
    [j \in 1..(Len(ds) * SIZEOF_DEV) |->
        DevBytes(ds[((j - 1) \div SIZEOF_DEV) + 1])[((j - 1) % SIZEOF_DEV) + 1]]

DevLists == UNION {[1..n -> DevSamples] : n \in 0..MaxDevs}

\* Descriptor i of the array mem, as the codec sees it: id, len and the first
\* len bytes of name
DevAt(mem, i) ==
    LET o == i * SIZEOF_DEV
    IN  [id |-> mem[o + 1], len |-> mem[o + 2],
         name |-> [j \in 1..mem[o + 2] |-> mem[o + 2 + j]]]

\* Wire buffers: an empty one; a lone id byte; a record that declares 5 name bytes
\* and brings 2; two whole records; a record whose name is one byte longer than
\* name[EMLN_DEV_NAME]; the header of verify_hdr; cleared and uncleared scratch
\* buffers with room for MaxDevs + 1 descriptors of the greatest length
WireSamples ==
    { <<>>,
      <<33>>,
      <<33, 5, 65, 66>>,
      <<1, 2, 97, 98, 2, 0>>,
      <<1, EMLN_DEV_NAME + 1>> \o Fill(EMLN_DEV_NAME + 1, 90),
      <<1, 66, 205, 171, 35, 0, 255, 31, 120, 86, 52, 18>>,
      Fill((MaxDevs + 1) * SIZEOF_DEV, 0),
      Fill((MaxDevs + 1) * SIZEOF_DEV, 255) }

\* Object kinds passed to the codec: the three defined ones, EMOB_MAX and the
\* greatest value kept
KindVals == {EMOB_NULL, EMOB_HDR, EMOB_LIST_DEV, EMOB_MAX, 2147483647}

\* Bytes that may lie behind the end of a buffer
Garbage == {0, 170}

\* Count hints: none, 0 .. MaxDevs + 1, and one more than EMLN_DEV_NUM
CountHints == {NULL} \cup {Ptr(n) : n \in 0..(MaxDevs + 1)} \cup {Ptr(EMLN_DEV_NUM + 1)}

\* The message received into is cleared, as verify_object clears it, or is not
InitCodec ==
    /\ hdr = TestHdr
    /\ rx_hdr \in {ZeroHdr, DirtyHdr}
    /\ rx_obj = Fill(MaxDevs * SIZEOF_DEV, IF rx_hdr = ZeroHdr THEN 0 ELSE 238)
    /\ obj \in {DevArray(ds) : ds \in DevLists}
    /\ buf \in WireSamples
    /\ call = NoCall
    /\ prev = NoCall
    /\ sent = NoSent
    /\ TablesInit

\* The arguments (type, param) of a call of emapi_serialize.  With
\* EMOB_LIST_DEV the caller passes the number of descriptors of obj it means to
\* send, or NULL for the one descriptor of a non-empty array
SerializeArgs ==
    {<<type, NULL>> : type \in KindVals \ {EMOB_LIST_DEV}}
        \cup {<<EMOB_LIST_DEV, Ptr(n)>> : n \in 0..Cap(obj)}
        \cup {<<EMOB_LIST_DEV, NULL>> : n \in 1..Cap(obj)}

\* The arguments (type, dst is NULL, param) of a call of emapi_deserialize
DeserializeArgs ==
    {<<type, null, param>> : type \in KindVals, null \in BOOLEAN,
                             param \in {NULL, Ptr(1)}}
        \cup {<<EMOB_LIST_DEV, FALSE, param>> : param \in CountHints}

\* verify_object: at most one emapi_serialize, the first call of a run
SerializeAny ==
    /\ call.fn = "none"
    /\ \E args \in SerializeArgs, g \in Garbage : Serialize(args[1], args[2], g)

\* verify_object: at most one emapi_deserialize, on what the buffer then holds
DeserializeAny ==
    /\ call.fn # "emapi_deserialize"
    /\ \E args \in DeserializeArgs, g \in Garbage :
           Deserialize(args[1], args[2], args[3], g)

NextCodec == SerializeAny \/ DeserializeAny

SpecCodec == InitCodec /\ [][NextCodec]_vars

(***************************************************************************)
(* SpecBuild: emapi_fill_hdr and the three message builders on a message   *)
(***************************************************************************)
\* int arguments of the builders, from INT_MIN to INT_MAX
IntVals == {-2147483647 - 1, -1, 0, 291, 305419896, 2147483647}

\* The arguments (m is NULL, x, y) of a call of a builder
BuildArgs ==
    {<<FALSE, x, y>> : x \in IntVals, y \in IntVals}
        \cup {<<TRUE, 0, 0>>, <<TRUE, -1, 2147483647>>}

\* Payload lengths passed to emapi_fill_hdr: around EMLN_PAYLOAD and the
\* greatest __u16
LenVals == {0, 8191, EMLN_PAYLOAD, EMLN_PAYLOAD + 1, 65535}

\* The message m: its header is cleared, uncleared or the one of verify_hdr;
\* its payload object holds one descriptor
InitBuild ==
    /\ hdr \in {ZeroHdr, DirtyHdr, TestHdr}
    /\ obj \in {DevArray(<<d>>) : d \in {e \in DevSamples : e.len > 0}}
    /\ rx_hdr = ZeroHdr
    /\ rx_obj = <<>>
    /\ buf = <<>>
    /\ call = NoCall
    /\ prev = NoCall
    /\ sent = NoSent
    /\ TablesInit

\* emapi_fill_hdr(NULL | &m.hdr, type, tag, rc, opcode, len, a, b), the first
\* call on a message
FillHdr ==
    /\ call.fn = "none"
    /\ \E null \in BOOLEAN, type \in {EMMT_RSP, 255}, tag \in {66},
          rc \in {205}, opcode \in {EMOP_LIST_DEV, 171}, len \in LenVals,
          a \in {0, 255}, b \in {W32(0, 0), W32(65535, 65535)} :
          \E r \in {emapi_fill_hdr(IF null THEN NULL ELSE Ptr(hdr),
                                   type, tag, rc, opcode, len, a, b)} :
              /\ hdr' = IF null THEN hdr ELSE r.h
              /\ call' = Call("emapi_fill_hdr", null, 0, NULL,
                              <<type, tag, rc, opcode, len, a, b.hi, b.lo>>,
                              r.rv, NULL, FALSE, FALSE, 0, 0)
    /\ UNCHANGED <<obj, rx_hdr, rx_obj, buf, sent, STR_EMMT, STR_EMOB, STR_EMOP,
                   STR_EMRC, prev>>

\* A builder applied to NULL or to the message m = [hdr, obj]
Built(fn, r, null, x, y) ==
    /\ hdr' = IF null THEN hdr ELSE r.m.hdr
    /\ obj' = IF null THEN obj ELSE r.m.obj
    /\ call' = Call(fn, null, 0, NULL, <<x, y>>, r.rv, NULL, FALSE, FALSE, 0, 0)
    /\ UNCHANGED <<rx_hdr, rx_obj, buf, sent, STR_EMMT, STR_EMOB, STR_EMOP,
                   STR_EMRC, prev>>

\* The message m
Msg == [hdr |-> hdr, obj |-> obj]

FillConn ==
    \E args \in BuildArgs :
        Built("emapi_fill_conn",
              emapi_fill_conn(IF args[1] THEN NULL ELSE Ptr(Msg), args[2], args[3]),
              args[1], args[2], args[3])

FillDisconn ==
    \E args \in BuildArgs :
        Built("emapi_fill_disconn",
              emapi_fill_disconn(IF args[1] THEN NULL ELSE Ptr(Msg), args[2], args[3]),
              args[1], args[2], args[3])

FillListdev ==
    \E args \in BuildArgs :
        Built("emapi_fill_listdev",
              emapi_fill_listdev(IF args[1] THEN NULL ELSE Ptr(Msg), args[2], args[3]),
              args[1], args[2], args[3])

NextBuild == FillHdr \/ FillConn \/ FillDisconn \/ FillListdev

SpecBuild == InitBuild /\ [][NextBuild]_vars

(***************************************************************************)
(* SpecReg: the shape resolver and the name registries                     *)
(***************************************************************************)
\* Codes 0 .. MaxCode are looked up, and the greatest __u8 and the greatest
\* value kept
MaxCode == 8

CodeVals == 0..MaxCode \cup {255, 2147483647}

\* Pointers that may lie behind the end of a name table
GarbagePtrs == {NULL, Ptr("")}

InitReg ==
    /\ hdr = ZeroHdr
    /\ obj = <<>>
    /\ rx_hdr = ZeroHdr
    /\ rx_obj = <<>>
    /\ buf = <<>>
    /\ call = NoCall
    /\ prev = NoCall
    /\ sent = NoSent
    /\ TablesInit

\* A lookup with argument u that returned the pointer r.str
Looked(fn, u, r) ==
    /\ call' = Call(fn, FALSE, 0, NULL, <<u>>, 0, r.str, r.oobr, FALSE, 0, 0)
    /\ prev' = call
    /\ UNCHANGED <<hdr, obj, rx_hdr, rx_obj, buf, sent, STR_EMMT, STR_EMOB,
                   STR_EMOP, STR_EMRC>>

\* A shape resolution of opcode that returned the object kind rv
Resolved(fn, opcode, rv) ==
    /\ call' = Call(fn, FALSE, 0, NULL, <<opcode>>, rv, NULL, FALSE, FALSE, 0, 0)
    /\ prev' = call
    /\ UNCHANGED <<hdr, obj, rx_hdr, rx_obj, buf, sent, STR_EMMT, STR_EMOB,
                   STR_EMOP, STR_EMRC>>

Emmt == \E u \in CodeVals, gp \in GarbagePtrs : Looked("emmt", u, emmt(STR_EMMT, u, gp))

Emob == \E u \in CodeVals, gp \in GarbagePtrs : Looked("emob", u, emob(STR_EMOB, u, gp))

Emop == \E u \in CodeVals, gp \in GarbagePtrs : Looked("emop", u, emop(STR_EMOP, u, gp))

Emrc == \E u \in CodeVals, gp \in GarbagePtrs : Looked("emrc", u, emrc(STR_EMRC, u, gp))

EmobReq == \E u \in CodeVals : Resolved("emapi_emob_req", u, emapi_emob_req(u))

EmobRsp == \E u \in CodeVals : Resolved("emapi_emob_rsp", u, emapi_emob_rsp(u))

NextReg == Emmt \/ Emob \/ Emop \/ Emrc \/ EmobReq \/ EmobRsp

SpecReg == InitReg /\ [][NextReg]_vars

(***************************************************************************)
(* Claims about the header codec (checked under SpecHdr)                   *)
(***************************************************************************)
\* The last call was emapi_deserialize(&rx_hdr, buf, EMOB_HDR, ..) on a buffer
\* that holds what emapi_serialize(buf, &h, EMOB_HDR, ..) left in it
HdrRoundTripDone ==
    /\ call.fn = "emapi_deserialize"
    /\ call.type = EMOB_HDR
    /\ ~call.null
    /\ sent.type = EMOB_HDR

\* C1 (as claimed): Header round-trip.  For every header h with the reserved
\* field zero, deserializing the 12 bytes that serializing h produced yields a
\* header equal to h in every field, the reserved field included, and both
\* calls report 12 bytes.
C1_HeaderRoundTrip ==
    (HdrRoundTripDone /\ sent.hdr.rsvd = 0)
        => /\ sent.rv = 12
           /\ call.rv = 12
           /\ rx_hdr = sent.hdr

\* The round trip holds of every field that the codec carries (all but rsvd)
HdrRoundTripCarried ==
    HdrRoundTripDone
        => /\ sent.rv = 12
           /\ call.rv = 12
           /\ [rx_hdr EXCEPT !.rsvd = 0] = [sent.hdr EXCEPT !.rsvd = 0]

\* The last call was emapi_serialize(buf, &hdr, EMOB_HDR, ..)
HdrSerialized == call.fn = "emapi_serialize" /\ call.type = EMOB_HDR

\* The wire layout of the header h, byte 5 (reserved) being r
WireHdr(h, r) ==
    <<h.ver * 16 + h.type, h.tag, h.rc, h.opcode, h.a, r,
      h.len % 256, h.len \div 256,
      h.b.lo % 256, h.b.lo \div 256, h.b.hi % 256, h.b.hi \div 256>>

\* C5 (as claimed): Byte-exact header encoding.  The 12 bytes serialize produces
\* for a header are the wire layout with byte 5 (reserved) equal to 0, and the
\* header of verify_hdr encodes to 01 42 CD AB 23 00 FF 1F 78 56 34 12.
C5_ByteExactHeader ==
    HdrSerialized
        => /\ call.rv = 12
           /\ buf = WireHdr(hdr, 0)
           /\ hdr = TestHdr => buf = <<1, 66, 205, 171, 35, 0, 255, 31, 120, 86, 52, 18>>

\* Every byte other than byte 5 is as the layout says
HdrBytesButReserved ==
    HdrSerialized => \E r \in 0..255 : buf = WireHdr(hdr, r)

(***************************************************************************)
(* Claims about the payload codec (checked under SpecCodec)                *)
(***************************************************************************)
\* The last call was emapi_deserialize(rx_obj, buf, EMOB_LIST_DEV, param)
DevDecoded ==
    /\ call.fn = "emapi_deserialize"
    /\ call.type = EMOB_LIST_DEV
    /\ ~call.null

\* The number of descriptors the last decode was asked for
DecodeCount == IF call.param = NULL THEN 1 ELSE Deref(call.param)

\* The last call decoded, with count hint n, a buffer into which the list of the
\* first n descriptors of obj was encoded with the DeviceList kind; the encode
\* stayed within obj and within the buffer, and rx_obj has room for n
\* descriptors
DevRoundTripDone ==
    /\ DevDecoded
    /\ sent.type = EMOB_LIST_DEV
    /\ sent.fit
    /\ sent.param # NULL
    /\ call.param = sent.param
    /\ Deref(sent.param) <= Cap(rx_obj)

\* C2 (as claimed): Device-list round-trip.  Encoding a list L of descriptors
\* (names of at most 125 bytes) with the DeviceList kind and decoding the bytes
\* with count hint len(L) yields a list equal to L - ids, name lengths and name
\* bytes, in order - and the decode consumes as many bytes as the encode
\* produced.
C2_DevListRoundTrip ==
    DevRoundTripDone
        => /\ call.rv = sent.rv
           /\ \A i \in 0..(Deref(sent.param) - 1) :
                  DevAt(rx_obj, i) = DevAt(sent.obj, i)

\* The round trip does hold of lists of exactly one descriptor
DevRoundTripOfOne ==
    (DevRoundTripDone /\ Deref(sent.param) = 1)
        => /\ call.rv = sent.rv
           /\ DevAt(rx_obj, 0) = DevAt(sent.obj, 0)

\* The first n records of the byte string src, read from offset k on, lie
\* within src: each two-byte prefix and each declared name
RECURSIVE RecordsFit(_, _, _)
RecordsFit(src, k, n) ==
    \/ n = 0
    \/ /\ k + 2 <= Len(src)
       /\ k + 2 + src[k + 2] <= Len(src)
       /\ RecordsFit(src, k + 2 + src[k + 2], n - 1)

\* C3 (as claimed): Truncation rejection.  When some descriptor's two-byte prefix
\* or declared name would extend past the end of the buffer, the decode returns
\* the error value and reads no byte beyond the buffer end; it does not return
\* a record as a success.
C3_TruncationRejected ==
    (DevDecoded /\ ~RecordsFit(buf, 0, DecodeCount))
        => /\ call.rv = -1
           /\ ~call.oobr

\* One of the first n records of src from offset k on, as far as they lie within
\* src, declares a name longer than name[EMLN_DEV_NAME]
RECURSIVE LongName(_, _, _)
LongName(src, k, n) ==
    /\ n > 0
    /\ k + 2 <= Len(src)
    /\ \/ src[k + 2] > EMLN_DEV_NAME
       \/ LongName(src, k + 2 + src[k + 2], n - 1)

\* C8 (as claimed): Capacity enforcement on decode.  When a record's name-length
\* byte is greater than 125 or the count hint is greater than 64, the decode
\* returns the error value, and stores no more than 125 name bytes into any
\* descriptor and no more than 64 descriptors.
C8_CapacityEnforced ==
    (DevDecoded /\ (LongName(buf, 0, DecodeCount) \/ DecodeCount > EMLN_DEV_NUM))
        => /\ call.rv = -1
           /\ call.nname <= EMLN_DEV_NAME
           /\ call.ndev <= EMLN_DEV_NUM

\* C7 (as claimed): Caller errors produce an error result and no output.  For an
\* object kind >= EMOB_MAX, emapi_serialize and emapi_deserialize return -1 and
\* leave the destination (the byte buffer, the object) unchanged, and so does
\* emapi_deserialize with a NULL destination; -1 is returned by no call that
\* succeeds.
C7_CallerErrors ==
    [][ /\ (call'.fn = "emapi_serialize" /\ call'.type >= EMOB_MAX)
            => (call'.rv = -1 /\ buf' = buf)
        /\ (call'.fn = "emapi_deserialize" /\ (call'.type >= EMOB_MAX \/ call'.null))
            => (call'.rv = -1 /\ rx_hdr' = rx_hdr /\ rx_obj' = rx_obj)
        /\ (call'.fn \in {"emapi_serialize", "emapi_deserialize"}
                /\ call'.type < EMOB_MAX /\ ~call'.null)
            => call'.rv # -1
      ]_vars

\* What does hold: the destination is left unchanged, emapi_deserialize
\* returns -1, and emapi_serialize returns 0
CallerErrorsAsCoded ==
    [][ /\ (call'.fn = "emapi_serialize" /\ call'.type >= EMOB_MAX)
            => (call'.rv = 0 /\ buf' = buf)
        /\ (call'.fn = "emapi_deserialize" /\ (call'.type >= EMOB_MAX \/ call'.null))
            => (call'.rv = -1 /\ rx_hdr' = rx_hdr /\ rx_obj' = rx_obj)
      ]_vars

\* The int emapi_serialize reports for the None kind
NoneEncoded == emapi_serialize(buf, obj, EMOB_NULL, NULL, 0).rv

\* C11 (as claimed): None kind.  emapi_serialize with EMOB_NULL succeeds with
\* zero bytes produced and the buffer untouched; emapi_deserialize with
\* EMOB_NULL and a destination succeeds for every buffer and count hint, with
\* zero bytes consumed and the destination unchanged; and an encode that fails
\* (object kind >= EMOB_MAX) reports a value other than the one a None encode
\* reports.
C11_NoneKind ==
    [][ /\ (call'.fn = "emapi_serialize" /\ call'.type = EMOB_NULL)
            => (call'.rv = 0 /\ buf' = buf)
        /\ (call'.fn = "emapi_deserialize" /\ call'.type = EMOB_NULL /\ ~call'.null)
            => (call'.rv = 0 /\ rx_hdr' = rx_hdr /\ rx_obj' = rx_obj)
        /\ (call'.fn = "emapi_serialize" /\ call'.type >= EMOB_MAX)
            => call'.rv # NoneEncoded
      ]_vars

\* What does hold of the None kind: the encode and the decode report 0 and
\* leave their destinations unchanged
NoneKindAsCoded ==
    [][ /\ (call'.fn = "emapi_serialize" /\ call'.type = EMOB_NULL)
            => (call'.rv = 0 /\ buf' = buf)
        /\ (call'.fn = "emapi_deserialize" /\ call'.type = EMOB_NULL /\ ~call'.null)
            => (call'.rv = 0 /\ rx_hdr' = rx_hdr /\ rx_obj' = rx_obj)
      ]_vars

\* Offset in src of record i (from 0), the records lying one after another
\* from offset 0 on
RECURSIVE RecordOffset(_, _)
RecordOffset(src, i) ==
    IF i = 0 THEN 0
    ELSE RecordOffset(src, i - 1) + 2 + src[RecordOffset(src, i - 1) + 2]

\* Record i of src: its id, its length n and its n name bytes
RecordAt(src, i) ==
    LET k == RecordOffset(src, i)
    IN  [id |-> src[k + 1], len |-> src[k + 2],
         name |-> [j \in 1..src[k + 2] |-> src[k + 2 + j]]]

\* src holds c well-formed records and the array mem has room for them
WellFormed(src, c, mem) ==
    /\ RecordsFit(src, 0, c)
    /\ ~LongName(src, 0, c)
    /\ c <= EMLN_DEV_NUM
    /\ c <= Cap(mem)

\* C12: Device-list decode cursor.  Decoding with count c (the count hint, or 1
\* when the hint is NULL) a buffer that holds c well-formed records, into an
\* array with room for them, stays within the buffer and the array, stores
\* record i - id, length n_i and the n_i name bytes - into entry i for each i
\* in 0..c-1, leaves the entries from c on as they were, decodes exactly one
\* descriptor when the hint is NULL, and returns the sum of 2 + n_i; a record
\* with n = 0 takes 2 bytes and yields an empty name.
C12_DecodeCursor ==
    [][ (/\ call'.fn = "emapi_deserialize"
         /\ call'.type = EMOB_LIST_DEV
         /\ ~call'.null
         /\ WellFormed(buf, IF call'.param = NULL THEN 1 ELSE Deref(call'.param),
                       rx_obj))
        => LET c == IF call'.param = NULL THEN 1 ELSE Deref(call'.param)
           IN  /\ ~call'.oobr /\ ~call'.oobw
               /\ call'.ndev = c
               /\ call'.rv = RecordOffset(buf, c)
               /\ Len(rx_obj') = Len(rx_obj)
               /\ \A i \in 0..(c - 1) :
                      /\ DevAt(rx_obj', i) = RecordAt(buf, i)
                      /\ RecordAt(buf, i).len = 0
                            => /\ RecordOffset(buf, i + 1) = RecordOffset(buf, i) + 2
                               /\ DevAt(rx_obj', i).name = <<>>
               /\ \A j \in (c * SIZEOF_DEV + 1)..Len(rx_obj) : rx_obj'[j] = rx_obj[j]
      ]_vars

\* C12 witness: two well-formed records, the second with n = 0, have been
\* decoded with count hint 2 into entries 0 and 1, and 6 bytes were consumed
C12_Witness ==
    /\ DevDecoded
    /\ call.param = Ptr(2)
    /\ buf = <<1, 2, 97, 98, 2, 0>>
    /\ call.rv = 6
    /\ DevAt(rx_obj, 0) = [id |-> 1, len |-> 2, name |-> <<97, 98>>]
    /\ DevAt(rx_obj, 1) = [id |-> 2, len |-> 0, name |-> <<>>]

(***************************************************************************)
(* Claims about the builders (checked under SpecBuild)                     *)
(***************************************************************************)
Builders == {"emapi_fill_conn", "emapi_fill_disconn", "emapi_fill_listdev"}

\* The opcode a builder stamps
OpcodeOf(fn) ==
    CASE fn = "emapi_fill_conn"    -> EMOP_CONN_DEV
      [] fn = "emapi_fill_disconn" -> EMOP_DISCON_DEV
      [] fn = "emapi_fill_listdev" -> EMOP_LIST_DEV

\* The low 8 bits of the int x in two's complement: those of x itself when
\* x >= 0, and the complement of those of -x - 1 when x < 0
Low8(x) == IF x >= 0 THEN x % 256 ELSE 255 - ((-(x + 1)) % 256)

\* The low 32 bits of the int y in two's complement, as two 16-bit halves: y
\* itself when y >= 0, and the complement of -y - 1 when y < 0
Low32(y) ==
    IF y >= 0 THEN W32(y \div 65536, y % 65536)
    ELSE W32(65535 - ((-(y + 1)) \div 65536), 65535 - ((-(y + 1)) % 65536))

\* C6: Message builders.  Each of emapi_fill_conn, emapi_fill_disconn and
\* emapi_fill_listdev, called with a message and two ints x and y, returns 0 and
\* leaves the header with its opcode (Connect / Disconnect / List devices),
\* a = x truncated to 8 bits, b = y truncated to 32 bits and every other field
\* zero, whatever the header held before, and leaves the payload object
\* unchanged; called with NULL it returns non-zero; NULL is the only input it
\* fails on.
C6_Builders ==
    [][ call'.fn \in Builders =>
            IF call'.null
            THEN call'.rv # 0
            ELSE /\ call'.rv = 0
                 /\ hdr' = [ver |-> 0, type |-> 0, tag |-> 0, rc |-> 0,
                            opcode |-> OpcodeOf(call'.fn),
                            a |-> Low8(call'.args[1]), rsvd |-> 0, len |-> 0,
                            b |-> Low32(call'.args[2])]
                 /\ obj' = obj
      ]_vars

\* C6 witness: emapi_fill_conn(&m, -1, INT_MIN) has returned 0 and left a = 0xFF,
\* b = 0x80000000 in an otherwise zero Connect header
C6_Witness ==
    /\ call.fn = "emapi_fill_conn"
    /\ ~call.null
    /\ call.args = <<-1, -2147483647 - 1>>
    /\ call.rv = 0
    /\ hdr = [ZeroHdr EXCEPT !.opcode = EMOP_CONN_DEV, !.a = 255, !.b = W32(32768, 0)]

\* C9 (as claimed): Message size invariant.  Every header emapi_fill_hdr or a
\* builder produces has payload length <= 8180, so the total emapi_fill_hdr
\* reports (12 + payload length) never exceeds 8192; emapi_fill_hdr with a
\* non-null header returns exactly 12 + len.
C9_MessageSize ==
    /\ (call.fn = "emapi_fill_hdr" /\ ~call.null)
           => /\ hdr.len <= EMLN_PAYLOAD
              /\ call.rv = EMLN_HDR + call.args[5]
              /\ call.rv <= EMLN_MSG
    /\ (call.fn \in Builders /\ ~call.null) => hdr.len <= EMLN_PAYLOAD

\* What does hold: emapi_fill_hdr stores len as it is and returns 12 + len; the
\* builders leave a payload length of 0
MessageSizeAsCoded ==
    /\ (call.fn = "emapi_fill_hdr" /\ ~call.null)
           => /\ hdr.len = call.args[5]
              /\ call.rv = EMLN_HDR + call.args[5]
    /\ (call.fn \in Builders /\ ~call.null) => hdr.len = 0

(***************************************************************************)
(* Claims about the resolver and the registries (checked under SpecReg)    *)
(***************************************************************************)
\* C4 (as claimed): Shape resolution.  emapi_emob_req returns the None kind for
\* every opcode; emapi_emob_rsp returns the DeviceList kind for List devices
\* and the None kind for every other opcode, recognized or not; neither returns
\* an error.
C4_ShapeResolution ==
    /\ call.fn = "emapi_emob_req" => call.rv = EMOB_NULL
    /\ call.fn = "emapi_emob_rsp"
           => call.rv = IF call.args[1] = EMOP_LIST_DEV THEN EMOB_LIST_DEV
                        ELSE EMOB_NULL

\* What does hold: the two resolvers agree, DeviceList for List devices and
\* None for every other opcode
ShapeResolutionAsCoded ==
    call.fn \in {"emapi_emob_req", "emapi_emob_rsp"}
        => call.rv = IF call.args[1] = EMOP_LIST_DEV THEN EMOB_LIST_DEV
                     ELSE EMOB_NULL

Lookups == {"emmt", "emob", "emop", "emrc"}

\* The bound of each lookup
MaxOf(fn) ==
    CASE fn = "emmt" -> EMMT_MAX
      [] fn = "emob" -> EMOB_MAX
      [] fn = "emop" -> EMOP_MAX
      [] fn = "emrc" -> EMRC_MAX

\* The names the code spaces list: categories 0..2 and return codes 0..5
Listed(fn, u, name) ==
    /\ fn = "emmt" => name = <<"Request", "Response", "Event">>[u + 1]
    /\ fn = "emrc" => name = <<"Success", "Background operation started",
                               "Invalid input", "Unsupported", "Internal error",
                               "Busy">>[u + 1]

====
